---- MODULE Spec2Model ----
(***************************************************************************)
(* A model of termai.py: a command-line client that loads (or creates, or  *)
(* migrates) a JSON configuration, parses its flags, assembles one query,  *)
(* sends it in one HTTP POST and renders the reply.                        *)
(*                                                                         *)
(* Text is a sequence of atoms.  An atom is one character of piped or      *)
(* typed text, or one whole command-line argument.  The file system        *)
(* (config.json, key, key.bak) persists from one run of the program to the *)
(* next; everything else is reset when the process exits.                  *)
(***************************************************************************)
EXTENDS Integers, Sequences, FiniteSets, TLC

\* Longest argument list (without argv[0]) and longest piped text explored.
MaxArgs == 2
MaxStdin == 2

\* ------------------------------------------------------------------ text

\* Characters of piped text and of the legacy key file.
Alphabet == {"h", "\n"}
\* What str.strip() removes.
Whitespace == {" ", "\n", "\t"}
\* Non-flag command-line arguments.
Words == {"explain", "recursion"}

SeqsUpTo(S, n) == UNION {[1..k -> S] : k \in 0..n}

IsSpace(c) == c \in Whitespace

RECURSIVE LStrip(_)
LStrip(s) ==
    IF s = <<>> THEN <<>>
    ELSE IF IsSpace(Head(s)) THEN LStrip(Tail(s)) ELSE s

RECURSIVE RStrip(_)
RStrip(s) ==
    IF s = <<>> THEN <<>>
    ELSE IF IsSpace(s[Len(s)]) THEN RStrip(SubSeq(s, 1, Len(s) - 1)) ELSE s

\* str.strip(): leading and trailing whitespace removed.
Strip(s) == RStrip(LStrip(s))

\* sep.join(items), every item one atom.
RECURSIVE Join(_, _)
Join(sep, items) ==
    IF items = <<>> THEN <<>>
    ELSE IF Len(items) = 1 THEN <<items[1]>>
    ELSE <<items[1], sep>> \o Join(sep, Tail(items))

\* input() on a stream: the first line without its newline, and what is
\* left in the stream for a later read().
NewlineAt(s) ==
    IF \E i \in 1..Len(s) : s[i] = "\n"
    THEN CHOOSE i \in 1..Len(s) : s[i] = "\n" /\ \A j \in 1..(i - 1) : s[j] # "\n"
    ELSE 0
InputLine(s) == IF NewlineAt(s) = 0 THEN s ELSE SubSeq(s, 1, NewlineAt(s) - 1)
InputRest(s) == IF NewlineAt(s) = 0 THEN <<>> ELSE SubSeq(s, NewlineAt(s) + 1, Len(s))

\* ------------------------------------------------------------ the files

\* config.json: missing, not JSON, JSON that is no object, or an object
\* with or without an "api_key" entry.
NoConfig == [kind |-> "nofile", has_api_key |-> FALSE, api_key |-> <<>>]
InvalidJson == [kind |-> "invalid", has_api_key |-> FALSE, api_key |-> <<>>]
JsonList == [kind |-> "list", has_api_key |-> FALSE, api_key |-> <<>>]
JsonObject(has, key) == [kind |-> "object", has_api_key |-> has, api_key |-> key]

\* What a user can leave in config.json with an editor.
WrittenByHand ==
    {InvalidJson, JsonList, JsonObject(FALSE, <<>>), JsonObject(TRUE, <<>>),
     JsonObject(TRUE, <<"h">>)}

NoFile == [exists |-> FALSE, text |-> <<>>]
File(text) == [exists |-> TRUE, text |-> text]

\* Contents of the legacy key file.
LegacyTexts == {<<>>, <<"\n">>, <<"\n", "h", "\n">>}

\* A line typed at the terminal in answer to the key prompt.
TypedLines == {<<>>, <<" ">>, <<" ", "h">>}

\* DEFAULT_CONFIG with the key filled in.
NewConfig(key) == JsonObject(TRUE, key)

\* CONFIG_FILE.exists()
ConfigFileExists(cf) == cf.kind # "nofile"

\* json.load(f): raises on text that is not JSON, else the value as stored.
JsonLoadFillsDefaults(cf) == [cf EXCEPT !.has_api_key = TRUE]
JsonLoad(cf) == cf

\* The key taken from the legacy file.
MigratedKeyRaw(text) == text
MigratedKey(text) == Strip(text)

\* -------------------------------------------------------------- the flags

FlagListWithoutDebug == {"--config", "--help", "-h"}
FlagList == {"--debug", "--config", "--help", "-h"}

\* What the user can put on the command line.
Tokens == {"--debug", "--config", "--help", "-h"} \cup Words

\* [arg for arg in sys.argv[1:] if arg not in [...]]
RECURSIVE FilterFlags(_)
FilterFlags(list) ==
    IF list = <<>> THEN <<>>
    ELSE IF Head(list) \in FlagList THEN FilterFlags(Tail(list))
    ELSE <<Head(list)>> \o FilterFlags(Tail(list))

\* sys.argv[0]
ProgramName == "ai"

InArgv(flag, list) == flag = ProgramName \/ \E i \in 1..Len(list) : list[i] = flag

\* The piped text as folded into the query.
PipedTextRStrip(text) == RStrip(text)
PipedText(text) == Strip(text)

\* ----------------------------------------------------------- the replies

\* A candidate of the reply: with content.parts[0].text, without content,
\* with a content that has no parts, with parts whose first has no text.
CandidateKinds == {"text", "nocontent", "noparts", "notext"}

\* No candidate, one, or one followed by a second of another kind.
CandidateLists ==
    {<<>>} \cup {<<c>> : c \in CandidateKinds}
           \cup {<<"text", "nocontent">>, <<"nocontent", "text">>}

NoBody == [feedback |-> "absent", has_candidates |-> FALSE, candidates |-> <<>>]

\* A parsed JSON object: promptFeedback absent, present without blockReason
\* or present with it; candidates absent or a list.
Bodies ==
    {[feedback |-> f, has_candidates |-> FALSE, candidates |-> <<>>] :
        f \in {"absent", "noreason", "blockreason"}}
    \cup
    {[feedback |-> f, has_candidates |-> TRUE, candidates |-> c] :
        f \in {"absent", "noreason", "blockreason"}, c \in CandidateLists}

NoResponse == [kind |-> "none", status |-> 0, body |-> NoBody]

\* What requests.post can do: raise, answer with a status other than 200,
\* answer 200 with a body that is not JSON, answer 200 with a JSON object.
Responses ==
    {[kind |-> "raise", status |-> 0, body |-> NoBody],
     [kind |-> "http", status |-> 500, body |-> NoBody],
     [kind |-> "notjson", status |-> 200, body |-> NoBody]}
    \cup {[kind |-> "json", status |-> 200, body |-> b] : b \in Bodies}

\* The request is posted once, whatever comes back.
SendAttemptsWithRetry(resp) == IF resp.kind = "raise" THEN 2 ELSE 1
SendAttempts(resp) == 1

\* Lines 174-196: what the reply prints, as the list of its messages.
\* An IndexError or KeyError of the lookups lands in `except Exception`.
Render(body, debug) ==
    IF body.feedback = "blockreason" THEN <<"Blocked">>
    ELSE IF body.has_candidates THEN
        IF body.candidates = <<>> THEN <<"ConnectionError">>
        ELSE IF body.candidates[1] = "text" THEN <<"Success">>
        ELSE IF body.candidates[1] \in {"noparts", "notext"} THEN <<"ConnectionError">>
        ELSE <<"NoContent">> \o (IF debug THEN <<"DebugDump">> ELSE <<>>)
    ELSE <<"InvalidFormat">> \o (IF debug THEN <<"DebugDump">> ELSE <<>>)

\* ---------------------------------------------------------------- state

VARIABLES
    config_file,    \* config.json
    key_file,       \* the legacy key file
    key_bak,        \* key.bak
    argv,           \* sys.argv[1:]
    isatty,         \* sys.stdin.isatty()
    stdin,          \* what is left to read on standard input
    start,          \* the files and the piped text as the run found them
    pc,             \* where the run is
    config,         \* main's config
    debug_mode,
    args,
    user_input,
    read_text,      \* what sys.stdin.read() returned
    printed,        \* the messages printed, in order
    exit_code,      \* -1 while the process runs
    prompted,       \* the key prompt was shown
    migrated,       \* the legacy key file was read and renamed
    config_writes,  \* how often config.json was written
    editor_opened,
    posts,          \* how many HTTP POSTs were issued
    post_key,       \* the api_key put in the URL
    payload_text,   \* contents[0].parts[0].text
    response

fs == <<config_file, key_file, key_bak>>
inputs == <<argv, isatty, stdin, start>>
locals == <<config, debug_mode, args, user_input, read_text>>
effects == <<prompted, migrated, config_writes, editor_opened>>
network == <<posts, post_key, payload_text, response>>
vars == <<fs, inputs, locals, effects, network, pc, printed, exit_code>>

NoKey == [present |-> FALSE, val |-> <<>>]
NoStart == [config_file |-> NoConfig, key_file |-> NoFile, stdin |-> <<>>]

\* A process that has not started: nothing of a run is set.
Fresh ==
    /\ argv = <<>> /\ isatty = TRUE /\ stdin = <<>> /\ start = NoStart
    /\ config = NoConfig /\ debug_mode = FALSE /\ args = <<>>
    /\ user_input = <<>> /\ read_text = <<>>
    /\ printed = <<>> /\ exit_code = -1
    /\ prompted = FALSE /\ migrated = FALSE /\ config_writes = 0
    /\ editor_opened = FALSE
    /\ posts = 0 /\ post_key = NoKey /\ payload_text = <<>>
    /\ response = NoResponse

Init ==
    /\ config_file \in {NoConfig} \cup WrittenByHand
    /\ key_file \in {NoFile} \cup {File(t) : t \in LegacyTexts}
    /\ key_bak = NoFile
    /\ pc = "idle"
    /\ Fresh

\* The process ends: sys.exit(code), an uncaught exception, or falling off
\* the end of main.
Terminate(code, messages) ==
    /\ pc' = "done"
    /\ exit_code' = code
    /\ printed' = printed \o messages

\* print_help(), lines 96-114.
print_help == Terminate(0, <<"Help">>)

\* open_editor(), lines 89-94: the user leaves the file as it is or as
\* `edited`; the file is not removed.
open_editor(edited) ==
    /\ Terminate(0, <<"OpeningEditor">>)
    /\ editor_opened' = TRUE
    /\ config_file' = edited

\* The user starts the program.
StartRun ==
    /\ pc = "idle"
    /\ argv' \in SeqsUpTo(Tokens, MaxArgs)
    /\ \/ isatty' = TRUE /\ stdin' = <<>>
       \/ isatty' = FALSE /\ stdin' \in SeqsUpTo(Alphabet, MaxStdin)
    /\ start' = [config_file |-> config_file, key_file |-> key_file, stdin |-> stdin']
    /\ pc' = "load_config"
    /\ UNCHANGED <<fs, locals, effects, network, printed, exit_code>>

\* load_config(), lines 41-87.  `typed` is the line the user types when the
\* prompt reads from a terminal.
load_config(typed) ==
    LET legacy == key_file.exists
        fromLegacy == IF legacy THEN MigratedKey(key_file.text) ELSE <<>>
        ask == fromLegacy = <<>>
        eof == ask /\ ~isatty /\ stdin = <<>>
        line == IF isatty THEN typed ELSE InputLine(stdin)
        key == IF ask THEN Strip(line) ELSE fromLegacy
        migrating == IF legacy THEN <<"Migrating">> ELSE <<>>
        asking == IF ask THEN <<"FirstRun">> ELSE <<>>
    IN
    /\ pc = "load_config"
    /\ IF ConfigFileExists(config_file) THEN
           /\ IF config_file.kind = "invalid"
              THEN /\ Terminate(1, <<"InvalidConfig">>)
                   /\ UNCHANGED config
              ELSE /\ config' = JsonLoad(config_file)
                   /\ pc' = "flags"
                   /\ UNCHANGED <<printed, exit_code>>
           /\ UNCHANGED <<fs, stdin, effects>>
       ELSE
           /\ key_file' = NoFile
           /\ key_bak' = IF legacy THEN key_file ELSE key_bak
           /\ migrated' = legacy
           /\ prompted' = ask
           /\ stdin' = IF ask /\ ~isatty THEN InputRest(stdin) ELSE stdin
           /\ UNCHANGED editor_opened
           /\ IF eof THEN
                  /\ Terminate(1, migrating \o asking \o <<"Traceback">>)
                  /\ UNCHANGED <<config_file, config, config_writes>>
              ELSE IF key = <<>> THEN
                  /\ Terminate(1, migrating \o asking \o <<"EmptyKey">>)
                  /\ UNCHANGED <<config_file, config, config_writes>>
              ELSE
                  /\ config_file' = NewConfig(key)
                  /\ config' = NewConfig(key)
                  /\ config_writes' = config_writes + 1
                  /\ printed' = printed \o migrating \o asking \o <<"Saved">>
                  /\ pc' = "flags"
                  /\ UNCHANGED exit_code
    /\ UNCHANGED <<argv, isatty, start, debug_mode, args, user_input, read_text, network>>

LoadConfig == \E typed \in TypedLines : load_config(typed)

\* main, lines 120-129: help, the editor, the debug flag, the filter.
HandleFlags ==
    /\ pc = "flags"
    /\ IF InArgv("--help", argv) \/ InArgv("-h", argv) THEN
           /\ print_help
           /\ UNCHANGED <<config_file, editor_opened, debug_mode, args>>
       ELSE IF InArgv("--config", argv) THEN
           /\ \E edited \in {config_file} \cup WrittenByHand : open_editor(edited)
           /\ UNCHANGED <<debug_mode, args>>
       ELSE
           /\ debug_mode' = InArgv("--debug", argv)
           /\ args' = FilterFlags(argv)
           /\ pc' = "input"
           /\ UNCHANGED <<config_file, editor_opened, printed, exit_code>>
    /\ UNCHANGED <<key_file, key_bak, inputs, config, user_input, read_text,
                   prompted, migrated, config_writes, network>>

\* main, lines 131-142: the query.
InputHandling ==
    /\ pc = "input"
    /\ IF ~isatty THEN
           /\ read_text' = stdin
           /\ stdin' = <<>>
           /\ user_input' = PipedText(stdin) \o
                  (IF args # <<>> THEN <<"\n">> \o Join(" ", args) ELSE <<>>)
           /\ pc' = "request"
           /\ UNCHANGED <<printed, exit_code>>
       ELSE IF args # <<>> THEN
           /\ user_input' = Join(" ", args)
           /\ pc' = "request"
           /\ UNCHANGED <<stdin, read_text, printed, exit_code>>
       ELSE
           /\ print_help
           /\ UNCHANGED <<stdin, read_text, user_input>>
    /\ UNCHANGED <<fs, argv, isatty, start, config, debug_mode, args, effects, network>>

\* main, lines 144-196: the URL, the payload, the POST and the reply.
SendRequestGetting(resp) ==
    LET debugModel == IF debug_mode THEN <<"DebugModel">> ELSE <<>>
        debugStatus == IF debug_mode THEN <<"DebugStatus">> ELSE <<>>
    IN
    /\ pc = "request"
    /\ IF config.kind # "object" THEN
           \* config.get on a value that is no dict: AttributeError, uncaught
           /\ Terminate(1, <<"Traceback">>)
           /\ UNCHANGED network
       ELSE
           /\ post_key' = [present |-> config.has_api_key, val |-> config.api_key]
           /\ payload_text' = user_input
           /\ posts' = posts + SendAttempts(resp)
           /\ response' = resp
           /\ IF resp.kind = "raise" THEN
                  Terminate(0, debugModel \o <<"ConnectionError">>)
              ELSE IF resp.status # 200 THEN
                  Terminate(1, debugModel \o debugStatus \o <<"HttpError">>)
              ELSE IF resp.kind = "notjson" THEN
                  Terminate(0, debugModel \o debugStatus \o <<"ConnectionError">>)
              ELSE
                  Terminate(0, debugModel \o debugStatus \o Render(resp.body, debug_mode))
    /\ UNCHANGED <<fs, inputs, locals, effects>>

SendRequest == \E resp \in Responses : SendRequestGetting(resp)

\* The process is gone; the files stay.
Exit ==
    /\ pc = "done"
    /\ pc' = "idle"
    /\ argv' = <<>> /\ isatty' = TRUE /\ stdin' = <<>> /\ start' = NoStart
    /\ config' = NoConfig /\ debug_mode' = FALSE /\ args' = <<>>
    /\ user_input' = <<>> /\ read_text' = <<>>
    /\ printed' = <<>> /\ exit_code' = -1
    /\ prompted' = FALSE /\ migrated' = FALSE /\ config_writes' = 0
    /\ editor_opened' = FALSE
    /\ posts' = 0 /\ post_key' = NoKey /\ payload_text' = <<>>
    /\ response' = NoResponse
    /\ UNCHANGED fs

Next ==
    \/ StartRun
    \/ LoadConfig
    \/ HandleFlags
    \/ InputHandling
    \/ SendRequest
    \/ Exit

Spec == Init /\ [][Next]_vars

\* ------------------------------------------------- notions of the claims

\* The recognized flags, as the documentation lists them.
NotAFlag(a) == a \notin {"--debug", "--config", "--help", "-h"}
NonFlagArguments == SelectSeq(argv, NotAFlag)
HelpRequested == \E i \in 1..Len(argv) : argv[i] \in {"--help", "-h"}
EditRequested == \E i \in 1..Len(argv) : argv[i] = "--config"

\* t is s without its leading and its trailing whitespace.
IsTrimOf(t, s) ==
    \E i \in 1..(Len(s) + 1) : \E j \in (i - 1)..Len(s) :
        /\ t = SubSeq(s, i, j)
        /\ \A k \in 1..(i - 1) : IsSpace(s[k])
        /\ \A k \in (j + 1)..Len(s) : IsSpace(s[k])
        /\ j >= i => ~IsSpace(s[i]) /\ ~IsSpace(s[j])

\* t is s without its trailing whitespace only.
IsRightTrimOf(t, s) ==
    \E j \in 0..Len(s) :
        /\ t = SubSeq(s, 1, j)
        /\ \A k \in (j + 1)..Len(s) : IsSpace(s[k])
        /\ j >= 1 => ~IsSpace(s[j])

\* t is the items with one space between neighbours.
IsSpaceJoined(t, items) ==
    /\ Len(t) = (IF items = <<>> THEN 0 ELSE 2 * Len(items) - 1)
    /\ \A i \in 1..Len(items) : t[2 * i - 1] = items[i]
    /\ \A i \in 1..(Len(items) - 1) : t[2 * i] = " "

\* q is the piped text p (trimmed as `Trim` says) followed, when there are
\* non-flag arguments, by a newline and the arguments joined by spaces.
IsAssembled(q, p, Trim(_, _)) ==
    \E n \in 0..Len(q) :
        /\ Trim(SubSeq(q, 1, n), p)
        /\ IF NonFlagArguments = <<>> THEN n = Len(q)
           ELSE /\ n < Len(q)
                /\ q[n + 1] = "\n"
                /\ IsSpaceJoined(SubSeq(q, n + 2, Len(q)), NonFlagArguments)

\* What is left of a text after its first line.
RECURSIVE AfterFirstLine(_)
AfterFirstLine(s) ==
    IF s = <<>> THEN <<>>
    ELSE IF Head(s) = "\n" THEN Tail(s) ELSE AfterFirstLine(Tail(s))

\* The messages of the reply among those printed.
IsReplyLine(m) ==
    m \in {"Blocked", "Success", "NoContent", "InvalidFormat", "ConnectionError", "HttpError"}
ReplyLines == SelectSeq(printed, IsReplyLine)

LastPrinted == IF printed = <<>> THEN "nothing" ELSE printed[Len(printed)]

ValidConfig(cf) == cf.kind = "object" /\ cf.has_api_key /\ cf.api_key # <<>>

\* The run began with a legacy key file and no config.json, and load_config
\* is over.
MigrationCase ==
    /\ pc \notin {"idle", "load_config"}
    /\ start.key_file.exists
    /\ start.config_file.kind = "nofile"

\* ------------------------------------------------------------------- C1

\* C1: whenever a POST has been issued, the api_key put in its URL is a
\* present, non-empty string.
ApiKeyNonEmptyAtPost ==
    posts > 0 => post_key.present /\ post_key.val # <<>>

\* ------------------------------------------------------------------- C2

\* C2: with --help or -h among the arguments nothing else happens: no key
\* prompt, no migration, no config write, no editor, no POST, and the run
\* ends printing the help text only, with exit code 0.
HelpPreemptsEverything ==
    (pc # "idle" /\ HelpRequested) =>
        /\ ~prompted /\ ~migrated /\ config_writes = 0
        /\ ~editor_opened /\ posts = 0
        /\ pc = "done" => exit_code = 0 /\ printed = <<"Help">>

\* ------------------------------------------------------------------- C3

\* C3: a run that has ended has exit code 1 exactly when it ended on
\* invalid config JSON, on an empty key entry or on a non-200 status, and
\* exit code 0 otherwise.
ExitCodeOneExactlyInThreeCases ==
    pc = "done" =>
        /\ exit_code \in {0, 1}
        /\ exit_code = 1 <=> LastPrinted \in {"InvalidConfig", "EmptyKey", "HttpError"}

\* ------------------------------------------------------------------- C4

\* C4: a parsed JSON body received with status 200 prints exactly one of
\* Blocked, Success, NoContent, InvalidFormat: Blocked when it carries a
\* block reason, else Success or NoContent when it has a candidates list
\* (of any shape), else InvalidFormat; never a connection error.
RendersExactlyOneOutcome ==
    (pc = "done" /\ response.kind = "json") =>
        /\ Len(ReplyLines) = 1
        /\ ReplyLines[1] \in {"Blocked", "Success", "NoContent", "InvalidFormat"}
        /\ response.body.feedback = "blockreason" => ReplyLines[1] = "Blocked"
        /\ (response.body.feedback # "blockreason" /\ response.body.has_candidates)
               => ReplyLines[1] \in {"Success", "NoContent"}
        /\ (response.body.feedback # "blockreason" /\ ~response.body.has_candidates)
               => ReplyLines[1] = "InvalidFormat"

\* ------------------------------------------------------------------- C5

\* C5 as stated: a run that began with a legacy key file and no
\* config.json ends with config.json holding the trimmed legacy key and
\* with the legacy file gone from its path, whatever the legacy file held.
MigrationAlwaysYieldsLegacyKey ==
    (MigrationCase /\ pc = "done") =>
        /\ ~key_file.exists
        /\ key_bak.exists
        /\ config_file.kind = "object" /\ config_file.has_api_key
        /\ IsTrimOf(config_file.api_key, start.key_file.text)

\* C5 amended: in such a run load_config always renames the legacy file to
\* key.bak.  When the trimmed legacy key is non-empty, no prompt is shown
\* and config.json holds that key (until the user edits it).  When it is
\* empty the prompt is shown, and either the run ends with exit code 1 and
\* no config.json, or config.json holds a non-empty key.
MigrationOutcome ==
    MigrationCase =>
        /\ migrated
        /\ ~key_file.exists
        /\ key_bak = start.key_file
        /\ IF IsTrimOf(<<>>, start.key_file.text)
           THEN /\ prompted
                /\ \/ pc = "done" /\ exit_code = 1 /\ config_file = NoConfig
                      /\ config_writes = 0
                   \/ config_writes = 1 /\ ValidConfig(config)
                      /\ (~editor_opened => config_file = config)
           ELSE /\ ~prompted
                /\ config_writes = 1
                /\ ValidConfig(config)
                /\ IsTrimOf(config.api_key, start.key_file.text)
                /\ ~editor_opened => config_file = config

\* A legacy key with whitespace around it was migrated.
MigrationReached ==
    /\ MigrationCase /\ pc = "done"
    /\ start.key_file.text = <<"\n", "h", "\n">>
    /\ config_file = JsonObject(TRUE, <<"h">>)
    /\ key_bak = start.key_file
    /\ ~key_file.exists

\* ------------------------------------------------------------------- C6

\* C6: a run that found a valid configuration, has no arguments and no
\* piped data (a terminal, or a pipe that yields nothing) prints the help
\* text, exits 0 and posts nothing; with a valid configuration no POST
\* carries an empty query.
NoInputShowsHelp ==
    /\ (/\ pc = "done"
        /\ ValidConfig(start.config_file)
        /\ argv = <<>>
        /\ (isatty \/ start.stdin = <<>>))
           => printed = <<"Help">> /\ exit_code = 0 /\ posts = 0
    /\ (ValidConfig(start.config_file) /\ posts > 0) => payload_text # <<>>

\* ------------------------------------------------------------------- C7

\* C7 as stated, for a run that found a valid configuration: with piped
\* input the text of the payload is the piped text without its trailing
\* whitespace (leading whitespace kept), then a newline and the
\* space-joined non-flag arguments if any.
QueryKeepsLeadingWhitespace ==
    (~isatty /\ posts > 0 /\ ValidConfig(start.config_file)) =>
        IsAssembled(payload_text, start.stdin, IsRightTrimOf)

\* C7 amended: with piped input the query is the text sys.stdin.read()
\* finds (all of the piped text, or what follows its first line when the
\* key prompt of a first run has read that line) without its leading and
\* trailing whitespace, then a newline and the space-joined non-flag
\* arguments if any; the text of the payload is that query.
QueryFromPipe ==
    /\ (~isatty /\ (pc = "request" \/ posts > 0)) =>
           /\ read_text = (IF prompted THEN AfterFirstLine(start.stdin) ELSE start.stdin)
           /\ IsAssembled(user_input, read_text, IsTrimOf)
    /\ posts > 0 => payload_text = user_input

\* Piped text with leading whitespace and one argument was sent.
PipedQuerySent ==
    /\ ~isatty /\ posts > 0
    /\ start.stdin = <<"\n", "h">>
    /\ argv = <<"--debug", "explain">>
    /\ payload_text = <<"h", "\n", "explain">>

\* ------------------------------------------------------------------- C8

\* C8: once the flags are handled, args is argv without its recognized
\* flags, the other arguments in their order; the query and the text of
\* the payload hold no recognized flag, and on a terminal they are the
\* non-flag arguments joined by single spaces.
FlagsNeverLeak ==
    /\ pc \in {"input", "request"} =>
           /\ args = NonFlagArguments
           /\ \A i \in 1..Len(args) : NotAFlag(args[i])
    /\ pc = "request" =>
           /\ \A i \in 1..Len(user_input) : NotAFlag(user_input[i])
           /\ isatty => IsSpaceJoined(user_input, NonFlagArguments)
    /\ posts > 0 =>
           /\ \A i \in 1..Len(payload_text) : NotAFlag(payload_text[i])
           /\ isatty => IsSpaceJoined(payload_text, NonFlagArguments)

\* A query was sent from a command line with a flag between two words.
FlaggedQuerySent ==
    /\ posts > 0 /\ isatty
    /\ argv = <<"explain", "--debug">>
    /\ payload_text = <<"explain">>

\* ------------------------------------------------------------------- C9

\* C9: when config.json exists and parses, load_config returns what it
\* holds, unchanged, and touches no file and shows no prompt; and while
\* config.json exists no step removes it, reads or renames the legacy
\* key file, or changes key.bak.
ExistingConfigLoadedVerbatim ==
    [][/\ (pc = "load_config" /\ config_file.kind \in {"object", "list"}) =>
              /\ pc' = "flags"
              /\ config' = config_file
              /\ config_file' = config_file
              /\ key_file' = key_file /\ key_bak' = key_bak
              /\ ~prompted' /\ ~migrated' /\ config_writes' = 0
       /\ config_file.kind # "nofile" =>
              /\ config_file'.kind # "nofile"
              /\ key_file' = key_file /\ key_bak' = key_bak
              /\ migrated' => migrated
      ]_vars

\* A config.json without api_key was loaded while the legacy file exists.
PartialConfigLoaded ==
    /\ pc = "flags"
    /\ start.config_file = JsonObject(FALSE, <<>>)
    /\ config = JsonObject(FALSE, <<>>)
    /\ config_file = JsonObject(FALSE, <<>>)
    /\ key_file.exists
    /\ ~prompted /\ ~migrated

\* ------------------------------------------------------------------ C10

\* C10: a run posts at most once; once it has posted it has ended; a run
\* that got a reply or an exception from the transport posted exactly
\* once; a run that ended at help, the editor, invalid config JSON or an
\* empty key posted nothing; --config without a help flag ends in the
\* editor with exit code 0, or earlier in load_config.
AtMostOnePost ==
    /\ posts <= 1
    /\ posts = 1 => pc = "done"
    /\ response.kind # "none" => posts = 1
    /\ (pc = "done" /\ LastPrinted \in {"Help", "OpeningEditor", "InvalidConfig", "EmptyKey"})
           => posts = 0
    /\ editor_opened => posts = 0 /\ exit_code = 0 /\ pc = "done"
    /\ (pc \in {"input", "request"} \/ posts > 0) => ~EditRequested /\ ~HelpRequested

\* The transport raised, and the run ended after its one POST.
FailedPostNotRepeated ==
    /\ pc = "done" /\ posts = 1
    /\ response.kind = "raise"
    /\ LastPrinted = "ConnectionError"
    /\ exit_code = 0

====
